---------------------------- MODULE Spec2Model ----------------------------
(***************************************************************************)
(* The Texas Hold'em session engine of src/cogs/poker.py: PokerPlayer,     *)
(* PokerGame (join, start, try_move, _advance_turn, stage,                 *)
(* attempt_cancel) and the session commands of the Poker cog.              *)
(*                                                                         *)
(* Reading of the source.                                                  *)
(*  - Money is Decimal.  Every amount the engine creates is buy_in, the    *)
(*    blind buy_in/100, the small blind buy_in/200, or a sum of those and  *)
(*    of raise amounts, so amounts are counted here in units of            *)
(*    buy_in/200 (one small blind): BuyIn = 200 units, Blind = 2 units.    *)
(*  - ctx.send / ctx.trigger_typing and the formatting of their texts are  *)
(*    output only.  Each handler's first reply is kept in `result`, an     *)
(*    exception that ends the handler in `raised`.                         *)
(*  - Name and type slips that fail on every execution are read as the     *)
(*    evident expression, so that the engine has behaviours at all:        *)
(*      line 260  self.game is None      (PokerGame has no attribute game) *)
(*                -> the session exists, the test is false;                *)
(*      line 102  p["status"], p a key of self.players                     *)
(*                -> self.players[p].status;                               *)
(*      line 132  player.get_status(), player a key                        *)
(*                -> self.players[player].status;                          *)
(*      line 306  "{:2.f}" (invalid format spec, raises ValueError before  *)
(*                line 313) -> a message, no effect on state.              *)
(*    These four sit on the path of every move.  The undefined name of     *)
(*    line 176 (host for self.host) stops one branch of one command and    *)
(*    is modelled as written: NameError.                                   *)
(*    Exceptions that depend on the state (KeyError on a seat without a    *)
(*    player record, IndexError on a missing blind seat) are modelled as   *)
(*    they happen: the handler stops there and keeps what it wrote.        *)
(*  - Handlers run one at a time; the skip loop of _advance_turn is        *)
(*    stepped (pc = "skip") because it need not terminate.                 *)
(***************************************************************************)
EXTENDS Integers, Sequences, FiniteSets

\* ---------------------------------------------------------------- bounds
NumJoiners == 3      \* identities other than the host
MaxMoves   == 2      \* accepted try_move calls explored

\* ------------------------------------------------------- program constants
STATUS_IN     == "in"
STATUS_ALL_IN == "all in"
STATUS_FOLDED == "folded"

MOVE_FOLD   == "pk_fold"
MOVE_CHECK  == "pk_check"
MOVE_CALL   == "pk_call"
MOVE_RAISE  == "pk_raise"
MOVE_ALL_IN == "pk_all_in"

BlindDivisor == 100  \* self._blind = buy_in / Decimal(100)
HalfDivisor  == 2    \* self._blind / Decimal(2)
MinSeats     == 3    \* len(self.players_order) < 3
SmallBlindSeat == 1  \* self.small_blind = 1
BigBlindSeat   == 2  \* self.big_blind = 2
InitialTurn    == -1 \* self.turn = -1
BoardSlots     == 5  \* self._in_play = [None, None, None, None, None]
TIMEOUT_MINUTES == 10

ROUND_STAGES == <<0, 3, 4, 5>>
None == "None"
\* the clock is read in whole minutes, up to the first minute past the timeout
MaxAge == TIMEOUT_MINUTES + 1

BuyIn      == BlindDivisor * HalfDivisor   \* buy_in, in units of buy_in/200
Blind      == BuyIn \div BlindDivisor      \* self._blind
SmallBlind == Blind \div HalfDivisor       \* self._blind / Decimal(2)

Host    == 0
Ids     == 0..NumJoiners
Moves   == {MOVE_FOLD, MOVE_CHECK, MOVE_CALL, MOVE_RAISE, MOVE_ALL_IN}
\* the amounts a raise is tried with: below zero, zero, one small blind, and
\* the one that lifts the opening bet to exactly a buy-in (more than what a
\* player who has posted a blind still holds)
RaiseAmounts == {0 - SmallBlind, 0, SmallBlind, BuyIn - Blind}
\* cap of the unbounded turn counter: start sets it below MinSeats + 1, and
\* each accepted move may run the skip loop round the table
MaxTurn == MinSeats + (MaxMoves + 1) * (NumJoiners + 2)

VARIABLES
    players,        \* self.players: id -> [amount, amount_in, status]
    players_order,  \* self.players_order
    ongoing_game,   \* self.ongoing_game
    ongoing_round,  \* self.ongoing_round
    turn,           \* self.turn
    bet,            \* self.bet
    pot,            \* self.pot
    pc,             \* "idle", or "skip" inside the loop of _advance_turn
    result,         \* the first reply of the last handler called
    raised,         \* the exception that ended it, or "none"
    nmoves,         \* accepted try_move calls so far
    _in_play,       \* self._in_play: the five board slots
    session,        \* Poker.game is not None
    age             \* whole minutes from self._time_started to now

vars == <<players, players_order, ongoing_game, ongoing_round, turn, bet, pot,
          pc, result, raised, nmoves, _in_play, session, age>>

game == <<players, players_order, ongoing_game, ongoing_round, turn, bet, pot>>

Range(s) == {s[i] : i \in 1..Len(s)}

\* PokerPlayer.__init__
PokerPlayer(amount) ==
    [amount |-> amount, amount_in |-> 0, status |-> STATUS_IN]

\* move_in without line 73: the chips leave the stack and are not committed
move_in_uncommitted(p, amount) ==
    [p EXCEPT !.amount = p.amount - amount]

\* PokerPlayer.move_in
move_in(p, amount) ==
    [p EXCEPT !.amount = p.amount - amount, !.amount_in = p.amount_in + amount]

\* PokerGame.__init__
Init ==
    /\ players = <<>>
    /\ players_order = <<Host>>
    /\ ongoing_game = FALSE
    /\ ongoing_round = FALSE
    /\ turn = InitialTurn
    /\ bet = 0
    /\ pot = 0
    /\ pc = "idle"
    /\ result = "Begun"
    /\ raised = "none"
    /\ nmoves = 0
    /\ _in_play = [i \in 1..BoardSlots |-> None]
    /\ session = TRUE
    /\ age = 0

\* PokerGame.num_folded
num_folded(pl) ==
    Cardinality({p \in DOMAIN pl : pl[p].status = STATUS_FOLDED})

\* seat index -> identity (Python lists are 0-based)
Seat(i) == players_order[i + 1]

\* the identity self._turn_player looks up: players_order[turn % len]
TurnId(t) == Seat(t % Len(players_order))

\* self._turn_player raises KeyError when that identity has no record
HasTurnPlayer(t) == TurnId(t) \in DOMAIN players

\* PokerGame._get_fold_winner, on the player table pl.  self.players keeps
\* insertion order; join is its only writer and appends the same identity to
\* players_order, so that order is Tail(players_order).  The result is <<>>
\* for None, <<p>> for a player.
_get_fold_winner(pl) ==
    IF num_folded(pl) < Len(players_order) - 1
    THEN <<>>
    ELSE LET alive == SelectSeq(Tail(players_order),
                                LAMBDA p : pl[p].status # STATUS_FOLDED)
         IN  IF alive = <<>> THEN <<>> ELSE <<Head(alive)>>

\* Identities are opaque to the engine, so the identities other than the host
\* are numbered in the order in which they first join.
NextJoiner(c) ==
    c = Host \/ (c \in DOMAIN players) \/ (\A d \in 1..(c - 1) : d \in DOMAIN players)

\* join without the return of line 187: the GameInProgress reply is sent and
\* the handler goes on
join_without_return(c) ==
    /\ pc = "idle"
    /\ NextJoiner(c)
    /\ raised' = "none"
    /\ IF c \in DOMAIN players
       THEN /\ result' = IF ongoing_game THEN "GameInProgress" ELSE "AlreadyJoined"
            /\ UNCHANGED game
       ELSE /\ result' = IF ongoing_game THEN "GameInProgress" ELSE "PlayerJoined"
            /\ players' = [p \in DOMAIN players \cup {c} |->
                             IF p = c THEN PokerPlayer(BuyIn) ELSE players[p]]
            /\ players_order' = Append(players_order, c)
            /\ UNCHANGED <<ongoing_game, ongoing_round, turn, bet, pot>>
    /\ UNCHANGED <<pc, nmoves, _in_play, session, age>>

\* PokerGame.join
join(c) ==
    /\ pc = "idle"
    /\ NextJoiner(c)
    /\ raised' = "none"
    /\ IF ongoing_game
       THEN /\ result' = "GameInProgress"
            /\ UNCHANGED game
       ELSE IF c \in DOMAIN players
       THEN /\ result' = "AlreadyJoined"
            /\ UNCHANGED game
       ELSE /\ result' = "PlayerJoined"
            /\ players' = [p \in DOMAIN players \cup {c} |->
                             IF p = c THEN PokerPlayer(BuyIn) ELSE players[p]]
            /\ players_order' = Append(players_order, c)
            /\ UNCHANGED <<ongoing_game, ongoing_round, turn, bet, pot>>
    /\ UNCHANGED <<pc, nmoves, _in_play, session, age>>

\* PokerGame.start.  The NotEnoughPlayers branch has no return: the handler
\* goes on, and the blind seats it indexes may not exist (IndexError).
start(c) ==
    /\ pc = "idle"
    /\ IF ongoing_round
       THEN /\ result' = "RoundInProgress"
            /\ raised' = "none"
            /\ UNCHANGED <<game, age>>
       ELSE IF c # Host
       THEN /\ result' = "NotHost"
            /\ raised' = "none"
            /\ UNCHANGED <<game, age>>
       ELSE LET n == Len(players_order)
                sb == Seat(SmallBlindSeat)
                bb == Seat(BigBlindSeat)
            IN
            /\ result' = IF n < MinSeats THEN "NotEnoughPlayers" ELSE "RoundStarted"
            /\ ongoing_game' = TRUE
            /\ ongoing_round' = TRUE
            /\ age' = 0
            /\ IF n <= SmallBlindSeat
               THEN /\ raised' = "IndexError"
                    /\ UNCHANGED <<players, bet, turn>>
               ELSE IF n <= BigBlindSeat
               THEN /\ raised' = "IndexError"
                    /\ players' = [players EXCEPT
                                     ![sb] = move_in(@, SmallBlind)]
                    /\ UNCHANGED <<bet, turn>>
               ELSE /\ raised' = "none"
                    /\ players' = [players EXCEPT
                                     ![sb] = move_in(@, SmallBlind),
                                     ![bb] = move_in(@, Blind)]
                    /\ bet' = Blind
                    /\ turn' = (BigBlindSeat + 1) % n
            /\ UNCHANGED <<players_order, pot>>
    /\ UNCHANGED <<pc, nmoves, _in_play, session>>

\* try_move lines 276-277: call with no bet is a check
EffectiveMove(move) ==
    IF bet = 0 /\ move = MOVE_CALL THEN MOVE_CHECK ELSE move

\* the validation with > for >= in line 286
Validate_strict(c, move) ==
    IF c \notin Range(players_order) THEN "NotParticipant"
    ELSE IF ~HasTurnPlayer(turn) THEN "KeyError"
    ELSE IF c # TurnId(turn) THEN "OutOfTurn"
    ELSE IF bet = 0 /\ move = MOVE_FOLD THEN "PointlessFold"
    ELSE IF bet > 0 /\ EffectiveMove(move) = MOVE_CHECK THEN "CannotCheck"
    ELSE IF /\ bet > players[TurnId(turn)].amount + players[TurnId(turn)].amount_in
            /\ EffectiveMove(move) \in {MOVE_CALL, MOVE_RAISE}
         THEN "MustGoAllIn"
    ELSE "ok"

\* try_move lines 264-289: the validation, in the order of the code.  "ok"
\* when the move is applied; "KeyError" when self._turn_player has no record.
Validate(c, move) ==
    IF c \notin Range(players_order) THEN "NotParticipant"
    ELSE IF ~HasTurnPlayer(turn) THEN "KeyError"
    ELSE IF c # TurnId(turn) THEN "OutOfTurn"
    ELSE IF bet = 0 /\ move = MOVE_FOLD THEN "PointlessFold"
    ELSE IF bet > 0 /\ EffectiveMove(move) = MOVE_CHECK THEN "CannotCheck"
    ELSE IF /\ bet >= players[TurnId(turn)].amount + players[TurnId(turn)].amount_in
            /\ EffectiveMove(move) \in {MOVE_CALL, MOVE_RAISE}
         THEN "MustGoAllIn"
    ELSE "ok"

\* try_move lines 313: the table bet after the move
NewBet(move, amount) ==
    IF move = MOVE_RAISE THEN bet + amount ELSE bet

\* try_move lines 293-326: the acting player's record after the move
ApplyMove(p, move, amount) ==
    CASE move = MOVE_FOLD   -> [p EXCEPT !.status = STATUS_FOLDED]
      [] move = MOVE_CHECK  -> p
      [] move = MOVE_CALL   -> move_in(p, bet)
      [] move = MOVE_RAISE  -> move_in(p, NewBet(move, amount))
      [] move = MOVE_ALL_IN -> [move_in(p, p.amount) EXCEPT !.status = STATUS_ALL_IN]

Accepted == {"Folded", "Checked", "Called", "Raised", "AllIn"}

Reply(move) ==
    CASE move = MOVE_FOLD   -> "Folded"
      [] move = MOVE_CHECK  -> "Checked"
      [] move = MOVE_CALL   -> "Called"
      [] move = MOVE_RAISE  -> "Raised"
      [] move = MOVE_ALL_IN -> "AllIn"

\* the amount argument: poker_raise passes Decimal(amount), the other
\* commands pass none (0 stands for the unused argument)
AmountsFor(move) == IF move = MOVE_RAISE THEN RaiseAmounts ELSE {0}

\* try_move without the return of line 284: the CannotCheck reply is sent and
\* the handler goes on to apply the check and advance the turn
try_move_without_return(c, move, amount) ==
    /\ pc = "idle"
    /\ LET v == Validate(c, move) IN
       IF v = "KeyError"
       THEN /\ result' = "none"
            /\ raised' = "KeyError"
            /\ UNCHANGED <<game, pc, nmoves>>
       ELSE IF v \notin {"ok", "CannotCheck"}
       THEN /\ result' = v
            /\ raised' = "none"
            /\ UNCHANGED <<game, pc, nmoves>>
       ELSE LET m  == EffectiveMove(move)
                pl == [players EXCEPT ![c] = ApplyMove(@, m, amount)]
            IN
            /\ nmoves < MaxMoves
            /\ turn < MaxTurn
            /\ nmoves' = nmoves + 1
            /\ result' = IF v = "ok" THEN Reply(m) ELSE v
            /\ raised' = "none"
            /\ players' = pl
            /\ bet' = NewBet(m, amount)
            /\ IF _get_fold_winner(pl) # <<>>
               THEN UNCHANGED <<turn, pc>>
               ELSE /\ turn' = turn + 1
                    /\ pc' = "skip"
            /\ UNCHANGED <<players_order, ongoing_game, ongoing_round, pot>>
    /\ UNCHANGED <<_in_play, session, age>>

\* PokerGame.try_move, with the head of _advance_turn (lines 238-248): a fold
\* winner ends the handler; otherwise turn += 1 and the skip loop starts.
try_move(c, move, amount) ==
    /\ pc = "idle"
    /\ LET v == Validate(c, move) IN
       IF v = "KeyError"
       THEN /\ result' = "none"
            /\ raised' = "KeyError"
            /\ UNCHANGED <<game, pc, nmoves>>
       ELSE IF v # "ok"
       THEN /\ result' = v
            /\ raised' = "none"
            /\ UNCHANGED <<game, pc, nmoves>>
       ELSE LET m  == EffectiveMove(move)
                pl == [players EXCEPT ![c] = ApplyMove(@, m, amount)]
            IN
            /\ nmoves < MaxMoves
            /\ turn < MaxTurn
            /\ nmoves' = nmoves + 1
            /\ result' = Reply(m)
            /\ raised' = "none"
            /\ players' = pl
            /\ bet' = NewBet(m, amount)
            /\ IF _get_fold_winner(pl) # <<>>
               THEN UNCHANGED <<turn, pc>>
               ELSE /\ turn' = turn + 1
                    /\ pc' = "skip"
            /\ UNCHANGED <<players_order, ongoing_game, ongoing_round, pot>>
    /\ UNCHANGED <<_in_play, session, age>>

\* PokerGame._advance_turn lines 249-257: one test of the while condition.
\* A seat without a record raises KeyError; a folded or all-in seat is
\* skipped; any other seat ends the loop and the handler.
skip ==
    /\ pc = "skip"
    /\ IF ~HasTurnPlayer(turn)
       THEN /\ raised' = "KeyError"
            /\ pc' = "idle"
            /\ UNCHANGED turn
       ELSE IF players[TurnId(turn)].status \in {STATUS_FOLDED, STATUS_ALL_IN}
       THEN /\ turn < MaxTurn
            /\ turn' = turn + 1
            /\ UNCHANGED <<pc, raised>>
       ELSE /\ pc' = "idle"
            /\ UNCHANGED <<turn, raised>>
    /\ UNCHANGED <<players, players_order, ongoing_game, ongoing_round, bet,
                   pot, result, nmoves, _in_play, session, age>>

\* PokerGame.stage: ROUND_STAGES.index of the number of slots that hold None.
\* list.index raises ValueError for a number that is not in the list: the
\* result is <<k>> for index k and <<>> for ValueError.
stage ==
    LET n  == Cardinality({i \in DOMAIN _in_play : _in_play[i] = None})
        at == {k \in DOMAIN ROUND_STAGES : ROUND_STAGES[k] = n}
    IN  IF at = {} THEN <<>>
        ELSE <<(CHOOSE k \in at : \A j \in at : k <= j) - 1>>

\* ------------------------------------------------------ the cog's commands
\* Poker.poker_begin.  The caller of a begin that creates the session is its
\* host and is named Host.  args stands for the (rounds, buy_in) arguments:
\* the buy-in message of line 364 reads self.buy_in, which Poker does not
\* have (AttributeError).
BeginArgs == {"ok", "bad_rounds", "bad_buy_in"}

poker_begin(args) ==
    /\ pc = "idle"
    /\ IF session
       THEN /\ result' = "AlreadyBegun"
            /\ raised' = "none"
            /\ UNCHANGED <<game, nmoves, _in_play, session, age>>
       ELSE IF args = "bad_rounds"
       THEN /\ result' = "BadRounds"
            /\ raised' = "none"
            /\ UNCHANGED <<game, nmoves, _in_play, session, age>>
       ELSE IF args = "bad_buy_in"
       THEN /\ raised' = "AttributeError"
            /\ UNCHANGED <<game, result, nmoves, _in_play, session, age>>
       ELSE /\ result' = "Begun"
            /\ raised' = "none"
            /\ players' = <<>>
            /\ players_order' = <<Host>>
            /\ ongoing_game' = FALSE
            /\ ongoing_round' = FALSE
            /\ turn' = InitialTurn
            /\ bet' = 0
            /\ pot' = 0
            /\ nmoves' = 0
            /\ _in_play' = [i \in 1..BoardSlots |-> None]
            /\ session' = TRUE
            /\ age' = 0
    /\ UNCHANGED pc

\* PokerGame.attempt_cancel, as written: past the timeout it answers and
\* returns True; otherwise line 176 reads the name host, which is neither a
\* local nor a global of the module (the constructor's parameter is kept as
\* self.host), so the comparison raises NameError for every caller.  The
\* result is "True", "False" or "NameError".
attempt_cancel(c) ==
    IF age > TIMEOUT_MINUTES THEN "True" ELSE "NameError"

\* Poker.poker_cancel
poker_cancel(c) ==
    /\ pc = "idle"
    /\ IF ~session
       THEN /\ result' = "NoGame"
            /\ raised' = "none"
            /\ UNCHANGED session
       ELSE IF attempt_cancel(c) = "True"
       THEN /\ result' = "CancelledTimeout"
            /\ raised' = "none"
            /\ session' = FALSE
       ELSE /\ raised' = attempt_cancel(c)
            /\ UNCHANGED <<result, session>>
    /\ UNCHANGED <<game, pc, nmoves, _in_play, age>>

\* Poker.poker_join
poker_join(c) ==
    IF session
    THEN join(c)
    ELSE /\ pc = "idle"
         /\ result' = "NoGame"
         /\ raised' = "none"
         /\ UNCHANGED <<game, pc, nmoves, _in_play, session, age>>

\* Poker.poker_start
poker_start(c) ==
    IF session
    THEN start(c)
    ELSE /\ pc = "idle"
         /\ result' = "NoGame"
         /\ raised' = "none"
         /\ UNCHANGED <<game, pc, nmoves, _in_play, session, age>>

\* a minute passes between two commands (datetime.now() of line 170)
tick ==
    /\ pc = "idle"
    /\ session
    /\ age < MaxAge
    /\ age' = age + 1
    /\ UNCHANGED <<game, pc, result, raised, nmoves, _in_play, session>>

Next ==
    \/ \E c \in Ids : join(c)
    \/ \E c \in Ids : start(c)
    \/ \E c \in Ids, move \in Moves :
          \E amount \in AmountsFor(move) : try_move(c, move, amount)
    \/ skip

Spec == Init /\ [][Next]_vars

\* the session commands of the cog with the clock: begin, cancel, join, start
NextSession ==
    \/ \E args \in BeginArgs : poker_begin(args)
    \/ \E c \in Ids : poker_cancel(c)
    \/ \E c \in Ids : poker_join(c)
    \/ \E c \in Ids : poker_start(c)
    \/ tick

SpecSession == Init /\ [][NextSession]_vars

\* ------------------------------------------------------------------ claims
RECURSIVE SumOver(_, _)
SumOver(pl, S) ==
    IF S = {} THEN 0
    ELSE LET p == CHOOSE q \in S : TRUE
         IN  pl[p].amount + pl[p].amount_in + SumOver(pl, S \ {p})

\* chips on the table: every stack, every committed amount, and the pot
Total == SumOver(players, DOMAIN players) + pot

\* start succeeded: the round is on and the table had its three seats
Started == ongoing_round /\ Len(players_order) >= MinSeats

\* in a started round, a move by c passes validation and is applied in this
\* step
Applies(c, move, amount) ==
    Started /\ Validate(c, move) = "ok" /\ try_move(c, move, amount)

\* C1: once the round is on, no step that writes a stack, a committed
\* amount or the pot changes the sum of all stacks, all committed amounts and
\* the pot.
C1_ChipConservation ==
    [][(ongoing_round /\ (players' # players \/ pot' # pot)) => Total' = Total]_vars

\* C1 witness: after a successful start a call, a raise or an all-in has moved
\* chips from a stack to a committed amount.
C1_Witness ==
    /\ Started /\ pc = "idle" /\ result \in {"Called", "Raised", "AllIn"}
    /\ \E p \in DOMAIN players : players[p].amount_in > Blind

\* C2: an accepted raise by r > 0 at table bet b leaves the table bet at b + r and
\* the raiser's committed amount at exactly b + r.
C2_RaiseCommitsNewBet ==
    [][\A c \in Ids : \A r \in RaiseAmounts :
          (r > 0 /\ Applies(c, MOVE_RAISE, r)) =>
             /\ bet' = bet + r
             /\ players'[c].amount_in = bet + r]_vars

\* C3: an accepted call at a table bet above 0 takes exactly (table bet -
\* committed) from the caller's stack, leaves the caller's committed amount
\* equal to the table bet, and leaves the table bet alone.
C3_CallMatchesBet ==
    [][\A c \in Ids :
          (bet > 0 /\ Applies(c, MOVE_CALL, 0)) =>
             /\ players'[c].amount = players[c].amount - (bet - players[c].amount_in)
             /\ players'[c].amount_in = bet
             /\ bet' = bet]_vars

\* C4: an accepted all-in empties the stack, sets the status to all-in, and
\* raises the table bet to the committed amount when that exceeds it.
C4_AllInRaisesBet ==
    [][\A c \in Ids :
          Applies(c, MOVE_ALL_IN, 0) =>
             /\ players'[c].amount = 0
             /\ players'[c].status = STATUS_ALL_IN
             /\ (players'[c].amount_in > bet => bet' = players'[c].amount_in)]_vars

\* C5: in a started round, a check by the player whose turn it is passes validation exactly when
\* that player's committed amount equals the table bet, and is otherwise
\* rejected with CannotCheck.
C5_CheckIffMatched ==
    (Started /\ pc = "idle" /\ HasTurnPlayer(turn)) =>
        LET c == TurnId(turn)
            v == Validate(c, MOVE_CHECK)
        IN  /\ (v = "ok") <=> (players[c].amount_in = bet)
            /\ (v # "ok") => (v = "CannotCheck")

\* C6: when, after a successful start, all seated players but one have
\* folded, the round has ended (the handler that saw it is back and
\* ongoing_round is false).
C6_WinByFoldEndsRound ==
    (/\ Started /\ pc = "idle"
     /\ num_folded(players) = Cardinality(DOMAIN players) - 1)
        => ~ongoing_round

\* the exceptions C7 allows: all other players folded, or no player left
\* who is neither folded nor all-in
OthersFolded == num_folded(players) >= Cardinality(DOMAIN players) - 1
NoneActive == \A p \in DOMAIN players : players[p].status # STATUS_IN

\* C7: after an accepted action of a started round the turn refers to a seat whose player exists
\* and is active, unless all others have folded or nobody is active.
C7_TurnOnActiveSeat ==
    (Started /\ pc = "idle" /\ result \in Accepted) =>
        \/ (HasTurnPlayer(turn) /\ players[TurnId(turn)].status = STATUS_IN)
        \/ OthersFolded
        \/ NoneActive

\* C8: a start by the host with fewer than 3 seats replies NotEnoughPlayers
\* and changes nothing of the game.
C8_StartNeedsThreeSeats ==
    [][(/\ ~ongoing_round
        /\ Len(players_order) < MinSeats
        /\ start(Host))
          => (result' = "NotEnoughPlayers" /\ UNCHANGED game)]_vars

\* C9: once the game is on, every join is answered GameInProgress and neither
\* the seating order nor the set of player records changes.
C9_JoinClosedAfterStart ==
    [][ongoing_game =>
          /\ players_order' = players_order
          /\ DOMAIN players' = DOMAIN players
          /\ \A c \in Ids : join(c) => result' = "GameInProgress"]_vars

\* C9 witness: a join was tried after a successful start and was rejected.
C9_Witness ==
    Started /\ ongoing_game /\ result = "GameInProgress"

\* C10: in a started round no stack is ever negative.
C10_StackNonNegative ==
    Started => \A p \in DOMAIN players : players[p].amount >= 0


C12_RaiseNeedsPositiveAmount ==
    [][\A c \in Ids : \A r \in RaiseAmounts :
          (r <= 0 /\ Started /\ try_move(c, MOVE_RAISE, r)) =>
             (bet' = bet /\ players' = players)]_vars

\* C13: in a started round, the record (status, stack, committed amount) of
\* a player who is folded or all-in is not changed by any step, so no action
\* of that player is applied.
C13_FoldedOrAllInIsFrozen ==
    [][\A p \in DOMAIN players :
          (Started /\ players[p].status \in {STATUS_FOLDED, STATUS_ALL_IN})
             => players'[p] = players[p]]_vars

\* the replies of try_move that reject the action
Rejected ==
    {"NotParticipant", "OutOfTurn", "PointlessFold", "CannotCheck", "MustGoAllIn"}

\* C14: a step that answers an action with a rejection changes nothing of the
\* game: turn, table bet, pot, and every player's record stay as they were.
C14_RejectionChangesNothing ==
    [][result' \in Rejected => UNCHANGED game]_vars

\* C14 witness: in a started round with chips committed beyond the blinds, a
\* call or raise has been answered MustGoAllIn.
C14_Witness ==
    /\ Started /\ pc = "idle" /\ result = "MustGoAllIn"
    /\ \E p \in DOMAIN players : players[p].amount_in > Blind

\* C16: a start by the host with no round in progress and at least 3 seats
\* sets both flags, leaves seat 1 with exactly half a blind committed and seat
\* 2 with exactly a blind, sets the table bet to the blind and the turn to
\* the seat after the big blind, wrapping round the table.
C16_StartPostsBlinds ==
    [][(/\ ~ongoing_round
        /\ Len(players_order) >= MinSeats
        /\ start(Host))
          => /\ ongoing_game' /\ ongoing_round'
             /\ players'[Seat(SmallBlindSeat)].amount_in = SmallBlind
             /\ players'[Seat(BigBlindSeat)].amount_in = Blind
             /\ bet' = Blind
             /\ turn' = (BigBlindSeat + 1) % Len(players_order)]_vars

NoDuplicates(seq) ==
    \A i, j \in 1..Len(seq) : seq[i] = seq[j] => i = j

\* C18: no identity appears twice in the seating order and every identity of
\* the seating order, the host included, has a player record.
C18_SeatingIntegrity ==
    /\ NoDuplicates(players_order)
    /\ Range(players_order) \subseteq DOMAIN players

\* C19: whenever the loop of _advance_turn is running in a started round that
\* at least two players have not folded, it can end: some seat of the table
\* is one the loop stops on (a player who is neither folded nor all-in) or
\* leaves through an exception (no record).  The loop walks the seats
\* cyclically and changes nothing but the turn, so it finishes exactly when
\* such a seat exists.
C19_SkipLoopCanEnd ==
    (Started /\ pc = "skip" /\ ~OthersFolded) =>
        \E i \in 0..(Len(players_order) - 1) :
            \/ Seat(i) \notin DOMAIN players
            \/ players[Seat(i)].status = STATUS_IN

\* C20: while no round has been started (ongoing_round false, turn at its
\* initial value), a fold, check, call, raise or all-in of any caller is not
\* accepted and leaves the table bet and every player record as they were.
C20_NoActionBeforeStart ==
    [][\A c \in Ids : \A move \in Moves : \A amount \in AmountsFor(move) :
         (~ongoing_round /\ turn = InitialTurn /\ try_move(c, move, amount))
            => (result' \notin Accepted /\ bet' = bet /\ players' = players)]_vars

\* C15: a cancel of an existing session tears it down when more than 10
\* minutes have passed since the stored timestamp, whoever calls; otherwise
\* the host's cancel tears it down and any other caller's cancel is answered
\* NotHost and leaves the session in place unchanged.
C15_Cancellation ==
    [][\A c \in Ids :
         (session /\ poker_cancel(c)) =>
            IF age > TIMEOUT_MINUTES \/ c = Host
            THEN ~session'
            ELSE result' = "NotHost" /\ session' /\ UNCHANGED <<game, age>>]_vars

\* C17: the stage is defined and is the position, in ROUND_STAGES, of the
\* number of board slots that hold a card.
C17_StageCountsRevealedCards ==
    LET revealed == Cardinality({i \in DOMAIN _in_play : _in_play[i] # None})
    IN  stage # <<>> /\ ROUND_STAGES[stage[1] + 1] = revealed

=============================================================================
